---- MODULE Spec2Model ----
(***************************************************************************)
(* Model of the Gunpla Colorizer backend (chchweng/guncol):                *)
(*   backend/app/services/recoloring_service.py   hex_to_hsl,              *)
(*                                                 recolor_segment_hsv      *)
(*   backend/app/services/segmentation_service.py load_sam_model,          *)
(*                                                 get_image_segmentation_masks *)
(*   backend/app/main.py                           the HTTP endpoints       *)
(*                                                                         *)
(* An image is a sequence of rows, a row a sequence of pixels, a pixel a   *)
(* triple of 8-bit channels (<<b, g, r>> or <<h, s, v>>).  A mask is a     *)
(* sequence of rows of BOOLEAN.  A string is a sequence of one-character   *)
(* strings; a path is a sequence of path components.                       *)
(***************************************************************************)
EXTENDS Integers, Sequences, FiniteSets, TLC

(***************************************************************************)
(* Bounds of the model.                                                    *)
(***************************************************************************)
\* The rows of a mask, and the columns of each row, range over 0..MaxDim.
MaxDim == 2
\* Number of requests / service calls in one behaviour.
MaxCalls == 2

(***************************************************************************)
(* Arithmetic helpers of the 8-bit colour conversions.                     *)
(***************************************************************************)
Max2(a, b) == IF a >= b THEN a ELSE b
Min2(a, b) == IF a <= b THEN a ELSE b
Max3(a, b, c) == Max2(Max2(a, b), c)
Min3(a, b, c) == Min2(Min2(a, b), c)

\* cvRound of the non-negative rational n/d: round half to even.
cvRound(n, d) ==
    LET q == n \div d
        r == n % d
    IN  IF 2 * r > d THEN q + 1
        ELSE IF 2 * r < d THEN q
        ELSE IF q % 2 = 0 THEN q ELSE q + 1

\* The values a float32 evaluation of n/d, rounded by saturate_cast<uchar>,
\* can take: the float result differs from the exact one only when n/d lies
\* exactly half way between two integers, where either neighbour can come out.
RoundF(n, d) ==
    LET q == n \div d
        r == n % d
    IN  IF 2 * r > d THEN {q + 1}
        ELSE IF 2 * r < d THEN {q}
        ELSE {q, q + 1}

\* Hue range of COLOR_BGR2HSV on 8-bit images (H in 0..179).
hrange == 180
\* Scale of the fixed-point arithmetic of the 8-bit BGR -> HSV conversion.
ShiftUnit == 4096

sdiv_table(i) == IF i = 0 THEN 0 ELSE cvRound(255 * ShiftUnit, i)
hdiv_table(hr, i) == IF i = 0 THEN 0 ELSE cvRound(hr * ShiftUnit, 6 * i)

\* cv2.cvtColor(_, cv2.COLOR_BGR2HSV) and cv2.COLOR_BGR2HSV_FULL on one 8-bit
\* pixel <<b, g, r>>; hr is the hue range (180, or 256 for _FULL).
\* (x + 2^11) >> 12 is an arithmetic shift: the floor of the division.
RGB2HSV_b(p, hr) ==
    LET b == p[1]  g == p[2]  r == p[3]
        v == Max3(b, g, r)
        vmin == Min3(b, g, r)
        diff == v - vmin
        s == (diff * sdiv_table(v) + (ShiftUnit \div 2)) \div ShiftUnit
        h0 == IF v = r THEN g - b
              ELSE IF v = g THEN b - r + 2 * diff
              ELSE r - g + 4 * diff
        h1 == (h0 * hdiv_table(hr, diff) + (ShiftUnit \div 2)) \div ShiftUnit
        h == IF h1 < 0 THEN h1 + hr ELSE h1
    IN  <<Min2(h, 255), s, v>>

BGR2HSVPixel(p) == RGB2HSV_b(p, hrange)

BGR2HSV_FULLPixel(p) == RGB2HSV_b(p, 256)

\* cv2.cvtColor(img, cv2.COLOR_BGR2HSV): pixel by pixel.
BGR2HSV(img) ==
    [r \in 1..Len(img) |-> [c \in 1..Len(img[r]) |-> BGR2HSVPixel(img[r][c])]]

\* cv2.cvtColor(_, cv2.COLOR_HSV2BGR) on one 8-bit pixel <<h, s, v>>: the set
\* of pixels <<b, g, r>> the float conversion can produce.  With
\* k = h mod 30 the four table entries times 255 are
\*   tab0 = v, tab1 = v(255-s)/255, tab2 = v(7650-s*k)/7650,
\*   tab3 = v(7650-s*(30-k))/7650.
HSV2BGRPixel(p) ==
    LET h == p[1]  s == p[2]  v == p[3]
        sector == (h \div 30) % 6
        k == h % 30
        tab == << {v},
                  RoundF(v * (255 - s), 255),
                  RoundF(v * (7650 - s * k), 7650),
                  RoundF(v * (7650 - s * (30 - k)), 7650) >>
        \* sector_data, as 1-based indices into tab, in b, g, r order
        sector_data == << <<2, 4, 1>>, <<2, 1, 3>>, <<4, 1, 2>>,
                          <<1, 3, 2>>, <<1, 2, 4>>, <<3, 2, 1>> >>
        sd == sector_data[sector + 1]
    IN  IF s = 0 THEN {<<v, v, v>>}
        ELSE {<<b, g, r>> : b \in tab[sd[1]], g \in tab[sd[2]], r \in tab[sd[3]]}

HSV2BGRImages(img) ==
    LET RowSets(r) == {row \in [1..Len(img[r]) -> UNION {HSV2BGRPixel(img[r][c]) : c \in 1..Len(img[r])}] :
                          \A c \in 1..Len(img[r]) : row[c] \in HSV2BGRPixel(img[r][c])}
    IN  {out \in [1..Len(img) -> UNION {RowSets(r) : r \in 1..Len(img)}] :
            \A r \in 1..Len(img) : out[r] \in RowSets(r)}

(***************************************************************************)
(* hex_to_hsl                                                              *)
(***************************************************************************)
\* Value of one hexadecimal digit, as int(_, 16) reads it.
HexVal ==
    [ch \in {"0","1","2","3","4","5","6","7","8","9",
             "a","b","c","d","e","f","A","B","C","D","E","F"} |->
        CASE ch = "0" -> 0  [] ch = "1" -> 1  [] ch = "2" -> 2  [] ch = "3" -> 3
          [] ch = "4" -> 4  [] ch = "5" -> 5  [] ch = "6" -> 6  [] ch = "7" -> 7
          [] ch = "8" -> 8  [] ch = "9" -> 9
          [] ch \in {"a", "A"} -> 10  [] ch \in {"b", "B"} -> 11
          [] ch \in {"c", "C"} -> 12  [] ch \in {"d", "D"} -> 13
          [] ch \in {"e", "E"} -> 14  [] ch \in {"f", "F"} -> 15]

IsHexDigit(ch) == ch \in DOMAIN HexVal

\* str.lstrip('#'): every leading '#' is removed.
RECURSIVE lstrip(_)
lstrip(s) == IF s # <<>> /\ s[1] = "#" THEN lstrip(Tail(s)) ELSE s

\* Value of a non-empty run of hex digits, most significant first.
RECURSIVE DigitsValue(_, _)
DigitsValue(s, acc) ==
    IF s = <<>> THEN acc ELSE DigitsValue(Tail(s), 16 * acc + HexVal[s[1]])

\* int(group, 16) over the characters of the model's alphabet: an optional
\* sign followed by at least one hex digit; anything else raises ValueError.
Int16Digits(group) ==
    IF group # <<>> /\ group[1] \in {"+", "-"} THEN Tail(group) ELSE group

ValidInt16(group) ==
    LET digits == Int16Digits(group)
    IN  digits # <<>> /\ \A i \in 1..Len(digits) : IsHexDigit(digits[i])

ParseInt16(group) ==
    IF group[1] = "-" THEN 0 - DigitsValue(Int16Digits(group), 0)
    ELSE DigitsValue(Int16Digits(group), 0)

\* hex_color[i : i + step] for i in range(0, h_len, step), 0-based i.
Groups(s, step) ==
    LET n == (Len(s) + step - 1) \div step
    IN  [j \in 1..n |-> SubSeq(s, (j - 1) * step + 1, Min2(j * step, Len(s)))]

Reverse(t) == [i \in 1..Len(t) |-> t[Len(t) + 1 - i]]

Failure(exc, msg) == [exc |-> exc, msg |-> msg, val |-> <<>>]
Success(val) == [exc |-> "none", msg |-> "", val |-> val]

\* Variant: return hsv_color[0][0], the 0..255-hue conversion.
ReturnedFullPixel(hsv_color, hsv_pixel) == hsv_color

\* return hsv_pixel[0][0]: of the two conversions the function computes, the
\* 0..179-hue one is returned; hsv_color (the _FULL one) is not used.
ReturnedPixel(hsv_color, hsv_pixel) == hsv_pixel

\* hex_to_hsl(hex_color): the set of its possible outcomes.  np.uint8 of a
\* Python integer outside 0..255 wraps modulo 256 (NumPy 1.x) or raises
\* OverflowError (NumPy 2.x): both are outcomes.  cvtColor takes 3 or 4
\* channels and reads b, g, r from the first three.
hex_to_hsl(hex_color) ==
    LET stripped == lstrip(hex_color)
        h_len == Len(stripped)
        step == h_len \div 3
    IN  IF step = 0
        THEN {Failure("ValueError", "range() arg 3 must not be zero")}
        ELSE
        LET groups == Groups(stripped, step)
            rgb == [j \in 1..Len(groups) |-> ParseInt16(groups[j])]
        IN  IF \E j \in 1..Len(groups) : ~ValidInt16(groups[j])
            THEN {Failure("ValueError", "invalid literal for int() with base 16")}
            ELSE
            LET bgr == Reverse(rgb)
                inRange == \A j \in 1..Len(bgr) : bgr[j] \in 0..255
                bgr_color == [j \in 1..Len(bgr) |-> bgr[j] % 256]
                converted ==
                    IF Len(bgr_color) \in {3, 4}
                    THEN Success(ReturnedPixel(BGR2HSV_FULLPixel(SubSeq(bgr_color, 1, 3)),
                                               BGR2HSVPixel(SubSeq(bgr_color, 1, 3))))
                    ELSE Failure("cv2.error", "Invalid number of channels in input image")
            IN  IF inRange THEN {converted}
                ELSE {Failure("OverflowError", "Python integer out of bounds for uint8"),
                      converted}

(***************************************************************************)
(* The image store: files of the file system, named by resolved paths.     *)
(***************************************************************************)
\* Working directory of the server process (main.py's "./uploaded_images"
\* is relative to it).
Cwd == <<"backend">>
UPLOAD_DIR == <<".", "uploaded_images">>

Absent == [kind |-> "absent", raster |-> <<>>]
\* A file whose bytes no image decoder accepts.
Bytes == [kind |-> "bytes", raster |-> <<>>]
\* A PNG file: 8-bit, 3 channels, lossless.
Png(img) == [kind |-> "png", raster |-> img]

\* os.path.join(a, b): an absolute b replaces a.
os_path_join(a, b) == IF b # <<>> /\ b[1] = "/" THEN b ELSE a \o b

\* os.path.basename
os_path_basename(path) == IF path = <<>> THEN "" ELSE path[Len(path)]

\* The file a path names: "." and ".." resolved against Cwd or the root.
RECURSIVE Normalize(_, _)
Normalize(comps, acc) ==
    IF comps = <<>> THEN acc
    ELSE IF comps[1] \in {".", "/"} THEN Normalize(Tail(comps), acc)
    ELSE IF comps[1] = ".." THEN
        Normalize(Tail(comps), IF acc = <<>> THEN acc ELSE SubSeq(acc, 1, Len(acc) - 1))
    ELSE Normalize(Tail(comps), Append(acc, comps[1]))

Resolve(path) ==
    IF path # <<>> /\ path[1] = "/" THEN Normalize(path, <<>>) ELSE Normalize(path, Cwd)

os_path_exists(st, path) ==
    Resolve(path) \in DOMAIN st /\ st[Resolve(path)].kind # "absent"

\* cv2.imread(path): the decoded 3-channel raster, or <<>> for None.
cv2_imread(st, path) ==
    IF os_path_exists(st, path) /\ st[Resolve(path)].kind = "png"
    THEN st[Resolve(path)].raster ELSE <<>>

\* Variant: the result is saved beside the original, as b.png.
imwrite_copy(st, path, img) ==
    [st EXCEPT ![<<"backend", "uploaded_images", "b.png">>] = Png(img)]

\* cv2.imwrite(path, img) on a ".png" path.
cv2_imwrite(st, path, img) == [st EXCEPT ![Resolve(path)] = Png(img)]

(***************************************************************************)
(* recolor_segment_hsv                                                     *)
(***************************************************************************)
\* The local state of one call.  Images not yet computed are <<>>.  The mask
\* is a boolean array, on which mask.astype(bool) changes nothing.
NewEnv(st, image_path, mask, hex) ==
    [st |-> st, image_path |-> image_path, mask |-> mask,
     target_hex_color |-> hex,
     img_bgr |-> <<>>, hsv_loaded |-> <<>>, img_hsv |-> <<>>, target |-> <<>>,
     recolored_img_bgr |-> <<>>, written |-> <<>>,
     exc |-> "none", msg |-> "", ret |-> <<>>,
     nwrites |-> 0, log |-> <<>>]

Raise(e, stmt, exc, msg) ==
    [e EXCEPT !.exc = exc, !.msg = msg, !.log = Append(@, stmt)]

\* Variant: only the heights are compared.
HeightMismatch(mask, img) == Len(mask) # Len(img)

\* mask.shape[0] != img.shape[0] or mask.shape[1] != img.shape[1]; the
\* second comparison is only evaluated when the first is false.
ShapeMismatch(mask, img) ==
    Len(mask) # Len(img) \/ Len(mask[1]) # Len(img[1])

\* np.where(mask): the coordinates of the True entries, row by row.
RECURSIVE RowCoords(_, _, _)
RowCoords(mask, r, c) ==
    IF c > Len(mask[r]) THEN <<>>
    ELSE (IF mask[r][c] THEN <<<<r, c>>>> ELSE <<>>) \o RowCoords(mask, r, c + 1)

RECURSIVE WhereFrom(_, _)
WhereFrom(mask, r) ==
    IF r > Len(mask) THEN <<>> ELSE RowCoords(mask, r, 1) \o WhereFrom(mask, r + 1)

\* Variant: only the first True coordinate is returned.
np_where_first(mask) ==
    LET all == WhereFrom(mask, 1)
    IN  IF all = <<>> THEN all ELSE <<all[1]>>

np_where(mask) == WhereFrom(mask, 1)

\* Variant: the assignment addresses the whole row r instead of pixel (r, c).
SetHueSatRow(img_hsv, r, c, target_h, target_s) ==
    [img_hsv EXCEPT ![r] = [cc \in 1..Len(@) |-> <<target_h, target_s, @[cc][3]>>]]

\* The body of the loop: img_hsv[r, c][0] = target_h; img_hsv[r, c][1] = target_s
SetHueSat(img_hsv, r, c, target_h, target_s) ==
    [img_hsv EXCEPT ![r][c][1] = target_h, ![r][c][2] = target_s]

\* for r, c in zip(row_indices, col_indices): ...
RECURSIVE RecolorLoop(_, _, _, _, _)
RecolorLoop(img_hsv, coords, i, target_h, target_s) ==
    IF i > Len(coords) THEN img_hsv
    ELSE RecolorLoop(SetHueSat(img_hsv, coords[i][1], coords[i][2], target_h, target_s),
                     coords, i + 1, target_h, target_s)

\* One statement of recolor_segment_hsv on the local state e: the set of
\* local states after it.
Exec(stmt, e) ==
    LET ok(f) == [f EXCEPT !.log = Append(@, stmt)]
    IN  CASE stmt = "exists" ->
               IF ~os_path_exists(e.st, e.image_path)
               THEN {Raise(e, stmt, "FileNotFoundError", "Image not found")}
               ELSE {ok(e)}
          [] stmt = "imread" ->
               LET img == cv2_imread(e.st, e.image_path)
               IN  IF img = <<>>
                   THEN {Raise(e, stmt, "ValueError", "Could not read image")}
                   ELSE {ok([e EXCEPT !.img_bgr = img])}
          [] stmt = "shape" ->
               IF ShapeMismatch(e.mask, e.img_bgr)
               THEN {Raise(e, stmt, "ValueError",
                           "Mask dimensions do not match image dimensions.")}
               ELSE {ok(e)}
          [] stmt = "cvtColor" ->
               {ok([e EXCEPT !.img_hsv = BGR2HSV(e.img_bgr),
                             !.hsv_loaded = BGR2HSV(e.img_bgr)])}
          [] stmt = "hex_to_hsl" ->
               {IF t.exc # "none"
                THEN Raise(e, stmt, t.exc, t.msg)
                ELSE ok([e EXCEPT !.target = <<t.val[1], t.val[2]>>]) :
                   t \in hex_to_hsl(e.target_hex_color)}
          [] stmt = "loop" ->
               {ok([e EXCEPT !.img_hsv =
                       RecolorLoop(e.img_hsv, np_where(e.mask), 1,
                                   e.target[1], e.target[2])])}
          [] stmt = "cvtColor_back" ->
               {ok([e EXCEPT !.recolored_img_bgr = out]) : out \in HSV2BGRImages(e.img_hsv)}
          [] stmt = "imwrite" ->
               {ok([e EXCEPT !.st = cv2_imwrite(e.st, e.image_path, e.recolored_img_bgr),
                             !.written = e.recolored_img_bgr,
                             !.nwrites = @ + 1])}
          [] stmt = "print" ->
               {ok(e)}
          [] stmt = "return" ->
               {ok([e EXCEPT !.ret = e.image_path])}

\* Variant: the converted image is saved once before the colour is parsed.
RecolorProgramEarlyWrite ==
    <<"exists", "imread", "shape", "cvtColor", "cvtColor_back", "imwrite",
      "hex_to_hsl", "loop", "cvtColor_back", "imwrite", "print", "return">>

\* The statements of recolor_segment_hsv in program order.
RecolorProgram ==
    <<"exists", "imread", "shape", "cvtColor", "hex_to_hsl", "loop",
      "cvtColor_back", "imwrite", "print", "return">>

\* Run the statements from the i-th on; a raised exception ends the call.
RECURSIVE RunFrom(_, _, _)
RunFrom(prog, i, envs) ==
    IF i > Len(prog) THEN envs
    ELSE RunFrom(prog, i + 1,
                 UNION {IF e.exc # "none" THEN {e} ELSE Exec(prog[i], e) : e \in envs})

\* recolor_segment_hsv(image_path, mask, target_hex_color) on the store st:
\* the set of final local states (returned path or exception, and the store).
recolor_segment_hsv(st, image_path, mask, hex) ==
    RunFrom(RecolorProgram, 1, {NewEnv(st, image_path, mask, hex)})

(***************************************************************************)
(* get_image_segmentation_masks                                            *)
(***************************************************************************)
\* What the opaque predictor does with an image and the prompts: it returns
\* masks, or one of its calls (set_image, predict) raises.
PredictorOutcomes == {"masks", "RuntimeError", "ValueError", "IndexError"}

\* Variant: except ValueError.
CaughtByExceptValueError(exc) == exc = "ValueError"

\* except Exception as e: every exception class of the model is caught.
CaughtByExceptException(exc) == exc \in {"RuntimeError", "ValueError", "IndexError", "cv2.error"}

\* masks.tolist() of a multimask prediction: one mask per candidate, each of
\* the image's height and width; which pixels are set is the predictor's choice.
PredictedMasks(img) ==
    {<<m, m, m>> : m \in {[r \in 1..Len(img) |-> [c \in 1..Len(img[r]) |-> b]] : b \in BOOLEAN}}

\* The result of the call: exc is the exception that leaves the function
\* ("none" when it returns), val the returned list.
get_image_segmentation_masks(predictor, st, image_path, outcome) ==
    IF predictor = "None" THEN {Success(<<>>)}
    ELSE
    LET image_bgr == cv2_imread(st, image_path)
        body == IF image_bgr = <<>> THEN {Success(<<>>)}
                ELSE IF outcome # "masks" THEN {Failure(outcome, "prediction failed")}
                ELSE {Success(masks) : masks \in PredictedMasks(image_bgr)}
    IN  {IF r.exc # "none" /\ CaughtByExceptException(r.exc) THEN Success(<<>>) ELSE r :
            r \in body}

(***************************************************************************)
(* The HTTP endpoints of main.py                                           *)
(***************************************************************************)
\* np.array(request.mask, dtype=bool) raises ValueError on rows of unequal
\* length.
IsRagged(mask) == \E i, j \in 1..Len(mask) : Len(mask[i]) # Len(mask[j])

\* The except clauses of recolor_image_endpoint, and FastAPI's answer to an
\* exception that leaves an endpoint.
StatusOf(exc) ==
    CASE exc = "none" -> 200
      [] exc = "FileNotFoundError" -> 404
      [] exc = "ValueError" -> 400
      [] OTHER -> 500

(***************************************************************************)
(* Inputs                                                                  *)
(***************************************************************************)
BoolRows == UNION {[1..w -> BOOLEAN] : w \in 0..MaxDim}
\* request.mask: List[List[bool]], rows of any lengths.
ListMasks == UNION {[1..h -> BoolRows] : h \in 0..MaxDim}
\* A 2-D boolean numpy array.
ArrayMasks == {m \in ListMasks : ~IsRagged(m)}

ImageNames ==
    { <<"a.png">>, <<"b.png">>, <<"..", "app", "main.py">>, <<"..", "logo.png">> }

FileA == <<"backend", "uploaded_images", "a.png">>
FileB == <<"backend", "uploaded_images", "b.png">>
FileMain == <<"backend", "app", "main.py">>
FileLogo == <<"backend", "logo.png">>
Files == {FileA, FileB, FileMain, FileLogo}

HexInputs ==
    { <<>>,
      <<"#">>,
      <<"f">>,
      <<"0", "f">>,
      <<"#", "Z", "Z", "Z">>,
      <<"#", "f", "8", "0">>,
      <<"f", "8", "0", "0">>,
      <<"f", "8", "0", "0", "1">>,
      <<"#", "F", "F", "0", "0", "F", "F">>,
      <<"0", "0", "f", "f", "0", "0">>,
      <<"#", "8", "0", "8", "0", "8", "0">>,
      <<"f", "f", "Z", "Z", "0", "0">>,
      <<"+", "f", "+", "0", "+", "8">>,
      <<"0", "f", "f", "0", "0", "0", "0", "f", "f">>,
      <<"f", "f", "f", "0", "0", "0", "0", "0", "0">>,
      <<"0", "0", "f", "f", "0", "0", "0", "0", "0", "0", "f", "f">> }

\* Images an upload can have stored (pixels are <<b, g, r>>).
InitImages ==
    { << << <<0, 1, 255>>, <<0, 255, 0>> >> >>,
      << << <<10, 100, 200>> >>, << <<128, 128, 128>> >> >> }

LogoImage == << << <<40, 40, 240>> >> >>

(***************************************************************************)
(* State                                                                   *)
(***************************************************************************)
VARIABLES
    store,          \* the files: resolved path -> content
    SAM_PREDICTOR,  \* the global model handle: "None" or "loaded"
    started,        \* the startup event has run
    ncalls,         \* requests and calls made so far
    last            \* the request or call being answered: inputs and outcome

vars == <<store, SAM_PREDICTOR, started, ncalls, last>>

NoCall ==
    [op |-> "none", via |-> "none", image_name |-> <<>>, prev |-> [f \in Files |-> Absent],
     called |-> FALSE, env |-> NewEnv([f \in Files |-> Absent], <<>>, <<>>, <<>>),
     exc |-> "none", status |-> 0, resp_name |-> "", masks |-> <<>>,
     outcome |-> ""]

Init ==
    /\ \E img \in InitImages :
          store = [f \in Files |->
                      IF f = FileA THEN Png(img)
                      ELSE IF f = FileLogo THEN Png(LogoImage)
                      ELSE IF f = FileMain THEN Bytes
                      ELSE Absent]
    /\ SAM_PREDICTOR = "None"
    /\ started = FALSE
    /\ ncalls = 0
    /\ last = NoCall

(***************************************************************************)
(* The error kind the inputs of a recolor call fall under, in the order    *)
(* the design checks them: used to state the claims only.                  *)
(***************************************************************************)
MaskHeight(mask) == Len(mask)
MaskWidth(mask) == IF mask = <<>> THEN 0 ELSE Len(mask[1])

\* Neither 3 nor 6 digits after stripping '#', or a character that is no
\* hex digit.
Malformed(hex) ==
    LET d == lstrip(hex)
    IN  Len(d) \notin {3, 6} \/ \E i \in 1..Len(d) : ~IsHexDigit(d[i])

InputKind(st, image_path, mask, hex) ==
    IF ~os_path_exists(st, image_path) THEN "ImageNotFound"
    ELSE IF st[Resolve(image_path)].kind # "png" THEN "ImageDecodeError"
    ELSE IF IsRagged(mask) THEN "MalformedMask"
    ELSE IF MaskHeight(mask) # Len(st[Resolve(image_path)].raster)
            \/ MaskWidth(mask) # Len(st[Resolve(image_path)].raster[1])
         THEN "DimensionMismatch"
    ELSE IF Malformed(hex) THEN "InvalidColorFormat"
    ELSE "none"

(***************************************************************************)
(* Actions                                                                 *)
(***************************************************************************)
\* startup_event: load_sam_model() sets the global handle, or leaves it None
\* when loading the checkpoint raises.
Startup ==
    /\ ~started
    /\ started' = TRUE
    /\ \E loaded \in BOOLEAN :
          SAM_PREDICTOR' = IF loaded THEN "loaded" ELSE "None"
    /\ UNCHANGED <<store, ncalls, last>>

\* A direct call of recolor_segment_hsv(image_path, mask, target_hex_color),
\* made once the application is up.
RecolorSegmentHsv ==
    /\ started
    /\ last.op = "none"
    /\ ncalls < MaxCalls
    /\ \E name \in ImageNames, mask \in ArrayMasks, hex \in HexInputs :
          LET image_path == os_path_join(UPLOAD_DIR, name)
          IN  \E e \in recolor_segment_hsv(store, image_path, mask, hex) :
                 /\ store' = e.st
                 /\ last' = [op |-> "recolor", via |-> "service", image_name |-> name,
                             prev |-> store, called |-> TRUE, env |-> e,
                             exc |-> e.exc, status |-> 0, resp_name |-> "",
                             masks |-> <<>>, outcome |-> ""]
    /\ ncalls' = ncalls + 1
    /\ UNCHANGED <<SAM_PREDICTOR, started>>

\* POST /recolor-image/
RecolorImageEndpoint ==
    /\ started
    /\ last.op = "none"
    /\ ncalls < MaxCalls
    /\ \E name \in ImageNames, mask \in ListMasks, hex \in HexInputs :
          LET image_path == os_path_join(UPLOAD_DIR, name)
              base == [op |-> "recolor", via |-> "http", image_name |-> name,
                       prev |-> store, called |-> FALSE,
                       env |-> NewEnv(store, image_path, mask, hex),
                       exc |-> "none", status |-> 0, resp_name |-> "", masks |-> <<>>,
                       outcome |-> ""]
          IN  IF ~os_path_exists(store, image_path)
              THEN /\ store' = store
                   /\ last' = [base EXCEPT !.exc = "HTTPException", !.status = 404]
              ELSE IF IsRagged(mask)
              THEN /\ store' = store
                   /\ last' = [base EXCEPT !.exc = "ValueError", !.status = 400]
              ELSE \E e \in recolor_segment_hsv(store, image_path, mask, hex) :
                   /\ store' = e.st
                   /\ last' = [base EXCEPT !.called = TRUE, !.env = e, !.exc = e.exc,
                                           !.status = StatusOf(e.exc),
                                           !.resp_name = os_path_basename(e.ret)]
    /\ ncalls' = ncalls + 1
    /\ UNCHANGED <<SAM_PREDICTOR, started>>

\* A direct call of get_image_segmentation_masks(image_path, coords, labels).
GetImageSegmentationMasks ==
    /\ started
    /\ last.op = "none"
    /\ ncalls < MaxCalls
    /\ \E name \in ImageNames, outcome \in PredictorOutcomes :
          LET image_path == os_path_join(UPLOAD_DIR, name)
          IN  \E r \in get_image_segmentation_masks(SAM_PREDICTOR, store, image_path, outcome) :
                 last' = [op |-> "segment", via |-> "service", image_name |-> name,
                          prev |-> store, called |-> TRUE,
                          env |-> NewEnv(store, image_path, <<>>, <<>>),
                          exc |-> r.exc, status |-> 0, resp_name |-> "",
                          masks |-> r.val, outcome |-> outcome]
    /\ ncalls' = ncalls + 1
    /\ UNCHANGED <<store, SAM_PREDICTOR, started>>

\* POST /segment-image/
SegmentImageEndpoint ==
    /\ started
    /\ last.op = "none"
    /\ ncalls < MaxCalls
    /\ \E name \in ImageNames, outcome \in PredictorOutcomes :
          LET image_path == os_path_join(UPLOAD_DIR, name)
              base == [op |-> "segment", via |-> "http", image_name |-> name,
                       prev |-> store, called |-> FALSE,
                       env |-> NewEnv(store, image_path, <<>>, <<>>),
                       exc |-> "none", status |-> 0, resp_name |-> "", masks |-> <<>>,
                       outcome |-> outcome]
          IN  IF ~os_path_exists(store, image_path)
              THEN last' = [base EXCEPT !.exc = "HTTPException", !.status = 404]
              ELSE \E r \in get_image_segmentation_masks(SAM_PREDICTOR, store,
                                                        image_path, outcome) :
                   last' = [base EXCEPT !.called = TRUE, !.exc = r.exc,
                                        !.status = StatusOf(r.exc),
                                        !.masks = r.val]
    /\ ncalls' = ncalls + 1
    /\ UNCHANGED <<store, SAM_PREDICTOR, started>>

\* The answer has been delivered: the call's locals are gone and the next
\* request can be served (requests are handled one at a time).
Return ==
    /\ last.op # "none"
    /\ last' = NoCall
    /\ UNCHANGED <<store, SAM_PREDICTOR, started, ncalls>>

Next ==
    \/ Startup
    \/ Return
    \/ RecolorSegmentHsv
    \/ RecolorImageEndpoint
    \/ GetImageSegmentationMasks
    \/ SegmentImageEndpoint

Spec == Init /\ [][Next]_vars

(***************************************************************************)
(* Properties                                                              *)
(***************************************************************************)
\* The last operation was a recolor call that entered recolor_segment_hsv.
RecolorCalled == last.op = "recolor" /\ last.called
\* ... and it returned.
RecolorOk == RecolorCalled /\ last.env.exc = "none"
\* The raster the call loaded (<<>> if the file was absent or undecodable).
Loaded == cv2_imread(last.prev, last.env.image_path)
TargetFile == Resolve(last.env.image_path)

\* C1: after a successful recolor_segment_hsv, the HSV buffer that is converted
\* back and written has, at every coordinate where the mask is True, the hue
\* and saturation hex_to_hsl derives from target_hex_color and the brightness
\* (maximum channel) the pixel had when the image was loaded.
C1_MaskedPixelsRecolored ==
    RecolorOk =>
        LET e == last.env
        IN  /\ e.written \in HSV2BGRImages(e.img_hsv)
            /\ store[TargetFile] = Png(e.written)
            /\ \A r \in 1..Len(e.mask) : \A c \in 1..Len(e.mask[r]) :
                  e.mask[r][c] =>
                     /\ \E t \in hex_to_hsl(e.target_hex_color) :
                           /\ t.exc = "none"
                           /\ e.img_hsv[r][c][1] = t.val[1]
                           /\ e.img_hsv[r][c][2] = t.val[2]
                     /\ e.img_hsv[r][c][3] =
                           Max3(Loaded[r][c][1], Loaded[r][c][2], Loaded[r][c][3])

\* A successful call with at least two True coordinates that changed the buffer.
C1_Witness ==
    /\ RecolorOk
    /\ Cardinality({rc \in (1..MaxDim) \X (1..MaxDim) :
                       /\ rc[1] <= Len(last.env.mask)
                       /\ rc[2] <= Len(last.env.mask[rc[1]])
                       /\ last.env.mask[rc[1]][rc[2]]}) >= 2
    /\ last.env.img_hsv # last.env.hsv_loaded

\* C2: after a successful recolor_segment_hsv, every pixel whose mask value is
\* False has in the HSV buffer exactly the hue, saturation and brightness the
\* BGR-to-HSV conversion of the loaded image gave it.
C2_UnmaskedPixelsUntouched ==
    RecolorOk =>
        \A r \in 1..Len(last.env.mask) : \A c \in 1..Len(last.env.mask[r]) :
            ~last.env.mask[r][c] =>
                last.env.img_hsv[r][c] = BGR2HSVPixel(Loaded[r][c])

\* A successful call whose mask has a True and a False entry in one row, the
\* False pixel having another hue or saturation than the target.
C2_Witness ==
    /\ RecolorOk
    /\ \E r \in 1..Len(last.env.mask) : \E c, d \in 1..Len(last.env.mask[r]) :
          /\ last.env.mask[r][c]
          /\ ~last.env.mask[r][d]
          /\ <<last.env.img_hsv[r][d][1], last.env.img_hsv[r][d][2]>> # last.env.target

\* C3: with a mask that is entirely False, a successful recolor_segment_hsv
\* leaves the stored image's pixels identical to those of the input image.
C3_AllFalseMaskIsIdentity ==
    ( /\ RecolorOk
      /\ \A r \in 1..Len(last.env.mask) : \A c \in 1..Len(last.env.mask[r]) :
            ~last.env.mask[r][c] )
    => store[TargetFile].raster = Loaded

\* The loaded image and the mask differ in height or in width.
DimensionsDiffer ==
    /\ RecolorCalled
    /\ Loaded # <<>>
    /\ \/ MaskHeight(last.env.mask) # Len(Loaded)
       \/ MaskWidth(last.env.mask) # Len(Loaded[1])

\* C4: when the mask's height or width differs from the loaded image's,
\* recolor_segment_hsv raises the ValueError "Mask dimensions do not match
\* image dimensions." (HTTP 400 at the endpoint) and nothing is written.
C4_DimensionMismatchRejected ==
    DimensionsDiffer =>
        /\ last.env.exc = "ValueError"
        /\ last.env.msg = "Mask dimensions do not match image dimensions."
        /\ last.env.nwrites = 0
        /\ store = last.prev
        /\ last.via = "http" => last.status = 400

\* A request whose mask has the image's height but not its width.
C4_Witness ==
    /\ DimensionsDiffer
    /\ last.via = "http"
    /\ MaskHeight(last.env.mask) = Len(Loaded)
    /\ last.status = 400

\* C5: every malformed hex colour string (neither 3 nor 6 digits after
\* stripping '#', or a non-hex character) makes hex_to_hsl fail, and a recolor
\* call given such a string writes nothing.
C5_MalformedHexRejected ==
    (last.op = "recolor" /\ Malformed(last.env.target_hex_color)) =>
        /\ (\E i \in 1..Len(last.env.log) : last.env.log[i] = "hex_to_hsl")
              => last.env.exc # "none"
        /\ last.env.nwrites = 0
        /\ store = last.prev

FailureKinds == {"InvalidColorFormat", "ImageNotFound", "ImageDecodeError", "DimensionMismatch"}

\* One request of each failure kind against the store st.
FailureProbes(st) ==
    LET a == os_path_join(UPLOAD_DIR, <<"a.png">>)
        img == cv2_imread(st, a)
        fits == [r \in 1..Len(img) |-> [c \in 1..Len(img[r]) |-> FALSE]]
    IN  { [image_path |-> os_path_join(UPLOAD_DIR, <<"b.png">>), mask |-> fits,
           hex |-> <<"#", "f", "8", "0">>],
          [image_path |-> os_path_join(UPLOAD_DIR, <<"..", "app", "main.py">>),
           mask |-> fits, hex |-> <<"#", "f", "8", "0">>],
          [image_path |-> a, mask |-> <<>>, hex |-> <<"#", "f", "8", "0">>],
          [image_path |-> a, mask |-> fits, hex |-> <<"#", "Z", "Z", "Z">>] }

\* How the caller sees an outcome: the exception type of the service, the
\* status of the endpoint.
Reported(via, exc, status) == IF via = "http" THEN <<"status", status>> ELSE <<exc, 0>>

\* C6: a recolor request of one of the four failure kinds is reported as a
\* failure, and no request of another of the four kinds is reported the same
\* way (exception type of the service, status at the endpoint).
C6_FailuresDistinct ==
    LET k == InputKind(last.prev, last.env.image_path, last.env.mask,
                       last.env.target_hex_color)
    IN  (last.op = "recolor" /\ k \in FailureKinds) =>
           /\ last.exc # "none"
           /\ \A p \in FailureProbes(last.prev) :
                 InputKind(last.prev, p.image_path, p.mask, p.hex) \in FailureKinds \ {k} =>
                    \A e \in recolor_segment_hsv(last.prev, p.image_path, p.mask, p.hex) :
                       Reported(last.via, e.exc, StatusOf(e.exc))
                          # Reported(last.via, last.exc, last.status)

\* Position of the first occurrence of stmt in log (0 if absent).
IndexOf(log, stmt) ==
    IF \E i \in 1..Len(log) : log[i] = stmt
    THEN CHOOSE i \in 1..Len(log) : log[i] = stmt /\ \A j \in 1..(i - 1) : log[j] # stmt
    ELSE 0

\* C7: in every recolor_segment_hsv call the store is written at most once,
\* only after the existence check, decode, dimension check, colour parsing,
\* masked assignment and back-conversion have run, with nothing but the log
\* line and the return after it; a call that fails leaves the store as it was.
C7_WriteLastAndOnlyOnSuccess ==
    last.op = "recolor" =>
        LET e == last.env
            w == IndexOf(e.log, "imwrite")
        IN  /\ e.nwrites <= 1
            /\ last.exc # "none" => (e.nwrites = 0 /\ store = last.prev)
            /\ e.nwrites = 0 => store = last.prev
            /\ e.nwrites = 1 =>
                  /\ w > 0
                  /\ \A stmt \in {"exists", "imread", "shape", "cvtColor", "hex_to_hsl",
                                  "loop", "cvtColor_back"} :
                        IndexOf(e.log, stmt) \in 1..(w - 1)
                  /\ \A i \in (w + 1)..Len(e.log) : e.log[i] \in {"print", "return"}

\* A call that passed every check but the colour parsing, and failed there.
C7_Witness ==
    /\ RecolorCalled
    /\ last.exc # "none"
    /\ Len(last.env.log) > 0
    /\ last.env.log[Len(last.env.log)] = "hex_to_hsl"
    /\ last.env.img_hsv # <<>>

\* C8: a successful recolor_segment_hsv returns the image_path it was given,
\* the recolored image is stored under that path, and no other file of the
\* store is created, modified or deleted.
C8_ReturnsKeyAndWritesOnlyIt ==
    RecolorOk =>
        /\ last.env.ret = last.env.image_path
        /\ store[TargetFile] = Png(last.env.recolored_img_bgr)
        /\ DOMAIN store = DOMAIN last.prev
        /\ \A f \in DOMAIN store : f # TargetFile => store[f] = last.prev[f]
        /\ last.via = "http" => last.resp_name = os_path_basename(last.env.image_path)

\* A successful call that changed the stored image.
C8_Witness ==
    /\ RecolorOk
    /\ store[TargetFile] # last.prev[TargetFile]

\* C9: get_image_segmentation_masks never lets an exception out; with no
\* model loaded, an unreadable image or a raising predictor it returns the
\* empty list, and /segment-image/ then answers 200 with no masks.
C9_SegmentationNeverRaises ==
    (last.op = "segment" /\ last.called) =>
        /\ last.exc = "none"
        /\ ( \/ SAM_PREDICTOR = "None"
             \/ Loaded = <<>>
             \/ last.outcome # "masks" ) => last.masks = <<>>
        /\ last.via = "http" => last.status = 200

\* The endpoint answered 200 with no masks although the loaded predictor raised
\* on a readable image.
C9_Witness ==
    /\ last.op = "segment"
    /\ last.called
    /\ last.via = "http"
    /\ SAM_PREDICTOR = "loaded"
    /\ Loaded # <<>>
    /\ last.outcome = "RuntimeError"
    /\ last.status = 200
    /\ last.masks = <<>>

\* C10: the hue hex_to_hsl returns is in 0..179 like the hue channel of the
\* image's HSV buffer: in the buffer handed to the HSV-to-BGR conversion every
\* hue is in 0..179 and every saturation and brightness in 0..255.
C10_HueConvention ==
    (RecolorCalled /\ last.env.target # <<>>) =>
        /\ last.env.target[1] \in 0..179
        /\ last.env.target[2] \in 0..255
        /\ \A r \in 1..Len(last.env.img_hsv) : \A c \in 1..Len(last.env.img_hsv[r]) :
              /\ last.env.img_hsv[r][c][1] \in 0..179
              /\ last.env.img_hsv[r][c][2] \in 0..255
              /\ last.env.img_hsv[r][c][3] \in 0..255

\* A successful recolor with a target hue above 127 (magenta: 150).
C10_Witness ==
    /\ RecolorOk
    /\ last.env.target[1] = 150
    /\ \E r \in 1..Len(last.env.mask) : \E c \in 1..Len(last.env.mask[r]) :
          last.env.mask[r][c] /\ last.env.img_hsv[r][c][1] = 150

(***************************************************************************)
(* hex_to_hsl on its own: every 3-digit colour and its 6-digit expansion,  *)
(* with and without the leading '#'.                                       *)
(***************************************************************************)
HexDigitChars ==
    {"0", "1", "2", "3", "4", "5", "6", "7", "8", "9", "a", "b", "c", "d", "e", "f"}

\* "RGB" written out as "RRGGBB".
Expand(d) == <<d[1], d[1], d[2], d[2], d[3], d[3]>>

ShortForms == {<<r, g, b>> : r \in HexDigitChars, g \in HexDigitChars, b \in HexDigitChars}

HexFormInputs ==
    UNION {{d, <<"#">> \o d, Expand(d), <<"#">> \o Expand(d)} : d \in ShortForms}

\* A caller is about to pass hex_color to hex_to_hsl.
InitHex ==
    /\ store = [f \in Files |-> Absent]
    /\ SAM_PREDICTOR = "None"
    /\ started = FALSE
    /\ ncalls = 0
    /\ \E hex \in HexFormInputs :
          last = [NoCall EXCEPT !.env = NewEnv([f \in Files |-> Absent], <<>>, <<>>, hex)]

\* hex_to_hsl(hex_color): target_h, target_s, _ = the returned pixel.
HexToHsl ==
    /\ last.op = "none"
    /\ \E t \in hex_to_hsl(last.env.target_hex_color) :
          last' = [last EXCEPT !.op = "hex_to_hsl", !.via = "service", !.called = TRUE,
                               !.exc = t.exc,
                               !.env = [@ EXCEPT !.exc = t.exc, !.msg = t.msg,
                                                 !.log = <<"hex_to_hsl">>,
                                                 !.target = IF t.exc = "none"
                                                            THEN <<t.val[1], t.val[2]>>
                                                            ELSE <<>>]]
    /\ UNCHANGED <<store, SAM_PREDICTOR, started, ncalls>>

NextHex == HexToHsl

SpecHex == InitHex /\ [][NextHex]_vars

\* The channel values line 9 parses out of hex_color.
ParsedChannels(hex) ==
    LET d == lstrip(hex)
        groups == Groups(d, Len(d) \div 3)
    IN  [j \in 1..Len(groups) |-> ParseInt16(groups[j])]

\* C11: hex_to_hsl accepts the 3-digit and the 6-digit form, with or without
\* '#', parsing three channel values in 0..255, and for a 3-digit string it
\* returns the hue and saturation it returns for the 6-digit expansion.
C11_ShortFormEqualsExpansion ==
    last.op = "hex_to_hsl" =>
        LET hex == last.env.target_hex_color
            d == lstrip(hex)
        IN  /\ last.exc = "none"
            /\ Len(ParsedChannels(hex)) = 3
            /\ \A j \in 1..3 : ParsedChannels(hex)[j] \in 0..255
            /\ Len(d) = 3 =>
                  \E t \in hex_to_hsl(<<"#">> \o Expand(d)) :
                     t.exc = "none" /\ <<t.val[1], t.val[2]>> = last.env.target

\* Directly inside the upload directory.
InUploadDir(file) ==
    /\ Len(file) = Len(Resolve(UPLOAD_DIR)) + 1
    /\ SubSeq(file, 1, Len(file) - 1) = Resolve(UPLOAD_DIR)

\* C12: whatever image_name an endpoint accepts, the file it reads lies
\* directly inside the upload directory, and so does every file it changes.
C12_FilesStayInUploadDir ==
    (last.via = "http" /\ last.op \in {"recolor", "segment"}) =>
        /\ (last.called /\ (last.op = "recolor" \/ SAM_PREDICTOR = "loaded"))
              => InUploadDir(TargetFile)
        /\ \A f \in DOMAIN store : store[f] # last.prev[f] => InUploadDir(f)

====
